---- MODULE Spec2Model ----
(***************************************************************************)
(* pub-time: version resolution and changelog generation.                  *)
(*                                                                         *)
(* Strings of the program are modelled as sequences of one-character       *)
(* strings, so that trimming, splitting, prefix tests and the regular      *)
(* expressions of the source are computed character by character.          *)
(* An optional value (Version.suffix, lastHash) is a sequence of length 0  *)
(* (undefined) or 1 (the value).                                           *)
(***************************************************************************)
EXTENDS Integers, Sequences, FiniteSets, TLC

VARIABLES
  pc,             \* position of the running call
  currVersionStr, \* what `npm show <name> version` printed (or "0.0.0-new")
  rawLog,         \* the commits `git log` prints, newest first
  lastHash,       \* the optional boundary passed to generateRelease
  allCommits,     \* getAllCommits' result
  i,              \* loop index of getCommitsSinceLastRelease
  prev,           \* ReleaseData.prev
  commits,        \* ReleaseData.commits (the pending window)
  k,              \* number of window commits generateRelease's loop has handled
  increment,      \* generateRelease's aggregated bump
  majors, minors, patches,
  next,           \* ReleaseData.next
  output,         \* generateChangelogMarkdown's result
  packageJson,    \* what pkgJson() reads: the name, the scripts, the dist files
  registry,       \* how `npm show` ends: "published", "unpublished" or "offline"
  thrown,         \* the message of the Error thrown, if any
  operands,       \* the arguments of the version function under study
  answers,        \* its results
  cfg,            \* publish's Config
  npmrc,          \* what ~/.npmrc is: "file", "directory" or "missing"
  done,           \* the steps of publish that have completed
  ran,            \* the commands executed by run and exec
  logged,         \* the messages passed to cfg.log
  written,        \* the files written to or removed from the disk
  asks,           \* how many times the release prompt has been shown
  answer,         \* the last answer to the prompt, trimmed and in lower case
  returned        \* publish's return value, once it has returned

versionVars == <<operands, answers>>
publishVars == <<cfg, npmrc, done, ran, logged, written, asks, answer, returned>>
envVars == <<packageJson, registry>>
restVars == <<versionVars, publishVars, envVars, thrown>>

vars == <<pc, currVersionStr, rawLog, lastHash, allCommits, i, prev, commits, k,
          increment, majors, minors, patches, next, output, packageJson, registry,
          thrown, operands, answers, cfg, npmrc, done, ran, logged, written, asks,
          answer, returned>>

(***************************************************************************)
(* Bounds of the model                                                     *)
(***************************************************************************)
\* longest history / pending window drawn for generateRelease
MaxCommits == 3
\* largest major, minor and patch number of a published version
MaxNum == 1
\* hashes are 40 hexadecimal digits; the model writes HashLen of them
HashLen == 3

(***************************************************************************)
(* Characters and strings                                                  *)
(***************************************************************************)
Digits == <<"0", "1", "2", "3", "4", "5", "6", "7", "8", "9">>
LowerChars == <<"a", "b", "c", "d", "e", "f", "g", "h", "i", "j", "k", "l", "m",
                "n", "o", "p", "q", "r", "s", "t", "u", "v", "w", "x", "y", "z">>
UpperChars == <<"A", "B", "C", "D", "E", "F", "G", "H", "I", "J", "K", "L", "M",
                "N", "O", "P", "Q", "R", "S", "T", "U", "V", "W", "X", "Y", "Z">>

Range(s) == {s[n] : n \in DOMAIN s}
IsDigit(c) == c \in Range(Digits)
IsLower(c) == c \in Range(LowerChars)
IsUpper(c) == c \in Range(UpperChars)
IsWhitespace(c) == c \in {" ", "\n", "\t", "\r"}

\* s.slice(from, to) with 0-based `from` inclusive and `to` exclusive, both clamped
slice(s, from, to) ==
  LET a == IF from < 0 THEN 0 ELSE IF from > Len(s) THEN Len(s) ELSE from
      b == IF to < 0 THEN 0 ELSE IF to > Len(s) THEN Len(s) ELSE to
  IN IF a >= b THEN <<>> ELSE SubSeq(s, a + 1, b)

\* s.slice(from)
sliceFrom(s, from) == slice(s, from, Len(s))

\* s.indexOf(c) for a one-character c: 0-based, -1 when absent
indexOf(s, c) ==
  IF \E n \in DOMAIN s : s[n] = c
  THEN (CHOOSE n \in DOMAIN s : s[n] = c /\ \A m \in 1..(n - 1) : s[m] # c) - 1
  ELSE -1

startsWith(s, p) == Len(p) <= Len(s) /\ SubSeq(s, 1, Len(p)) = p

includes(s, sub) ==
  \E n \in 0..(Len(s) - Len(sub)) : SubSeq(s, n + 1, n + Len(sub)) = sub

RECURSIVE trimStart(_)
trimStart(s) ==
  IF s # <<>> /\ IsWhitespace(Head(s)) THEN trimStart(Tail(s)) ELSE s

RECURSIVE trimEnd(_)
trimEnd(s) ==
  IF s # <<>> /\ IsWhitespace(s[Len(s)]) THEN trimEnd(SubSeq(s, 1, Len(s) - 1)) ELSE s

trim(s) == trimEnd(trimStart(s))

toLowerChar(c) ==
  IF IsUpper(c) THEN LowerChars[CHOOSE n \in DOMAIN UpperChars : UpperChars[n] = c] ELSE c

toLowerCase(s) == [n \in DOMAIN s |-> toLowerChar(s[n])]

\* s.split(c) for a one-character separator: always at least one part
RECURSIVE split(_, _)
split(s, c) ==
  LET at == indexOf(s, c)
  IN IF at = -1 THEN <<s>> ELSE <<slice(s, 0, at)>> \o split(sliceFrom(s, at + 1), c)

\* parts.join(sep)
RECURSIVE join(_, _)
join(parts, sep) ==
  IF parts = <<>> THEN <<>>
  ELSE IF Len(parts) = 1 THEN parts[1]
  ELSE parts[1] \o sep \o join(Tail(parts), sep)

\* optional values
Undefined == <<>>
Some(v) == <<v>>
\* JavaScript truthiness of an optional string: defined and not empty
Truthy(opt) == opt # <<>> /\ opt[1] # <<>>

(***************************************************************************)
(* src/lib/version.ts                                                      *)
(***************************************************************************)
IsAlnumHyphen(c) == IsDigit(c) \/ IsLower(c) \/ IsUpper(c) \/ c = "-"
AllDigits(s) == \A n \in DOMAIN s : IsDigit(s[n])

\* (0|[1-9]\d*)
IsNumericId(s) == s # <<>> /\ AllDigits(s) /\ (Len(s) = 1 \/ s[1] # "0")
\* (?:0|[1-9]\d*|\d*[A-Za-z-][\dA-Za-z-]*)
IsPrereleaseId(s) ==
  /\ s # <<>>
  /\ \A n \in DOMAIN s : IsAlnumHyphen(s[n])
  /\ AllDigits(s) => (Len(s) = 1 \/ s[1] # "0")
\* [\dA-Za-z-]+
IsBuildId(s) == s # <<>> /\ \A n \in DOMAIN s : IsAlnumHyphen(s[n])

\* The match of SEMVER_REGEX on s: the first "+" can only start the build
\* metadata and the first "-" before it can only start the prerelease, so the
\* groups are cut there and each is tested against its part of the pattern.
semverMatch(s) ==
  LET plusAt == indexOf(s, "+")
      main == IF plusAt = -1 THEN s ELSE slice(s, 0, plusAt)
      build == IF plusAt = -1 THEN Undefined ELSE Some(sliceFrom(s, plusAt + 1))
      dashAt == indexOf(main, "-")
      core == IF dashAt = -1 THEN main ELSE slice(main, 0, dashAt)
      pre == IF dashAt = -1 THEN Undefined ELSE Some(sliceFrom(main, dashAt + 1))
      nums == split(core, ".")
      ok == /\ Len(nums) = 3
            /\ \A n \in 1..3 : IsNumericId(nums[n])
            /\ pre # Undefined =>
                 LET ids == split(pre[1], ".") IN \A n \in DOMAIN ids : IsPrereleaseId(ids[n])
            /\ build # Undefined =>
                 LET ids == split(build[1], ".") IN \A n \in DOMAIN ids : IsBuildId(ids[n])
  IN [ok |-> ok, nums |-> nums, pre |-> pre, build |-> build]

SEMVER_REGEX_test(s) == semverMatch(s).ok

DigitValue(c) == (CHOOSE n \in DOMAIN Digits : Digits[n] = c) - 1

\* Number.parseInt on a string of decimal digits
RECURSIVE parseInt(_)
parseInt(s) ==
  IF s = <<>> THEN 0
  ELSE 10 * parseInt(SubSeq(s, 1, Len(s) - 1)) + DigitValue(s[Len(s)])

NewSuffix == <<"n", "e", "w">>

\* parseVersion whose fallback carries no suffix
parseVersionBareFallback(version) ==
  LET match == semverMatch(trim(version))
  IN IF match.ok
     THEN [major |-> parseInt(match.nums[1]),
           minor |-> parseInt(match.nums[2]),
           patch |-> parseInt(match.nums[3]),
           suffix |-> match.pre]
     ELSE [major |-> 0, minor |-> 0, patch |-> 0, suffix |-> Undefined]

\* parseVersion that reads the minor number from the first group as well
parseVersionMajorTwice(version) ==
  LET match == semverMatch(trim(version))
  IN IF match.ok
     THEN [major |-> parseInt(match.nums[1]),
           minor |-> parseInt(match.nums[1]),
           patch |-> parseInt(match.nums[3]),
           suffix |-> match.pre]
     ELSE [major |-> 0, minor |-> 0, patch |-> 0, suffix |-> Some(NewSuffix)]

\* lines 14-29
parseVersion(version) ==
  LET match == semverMatch(trim(version))
  IN IF match.ok
     THEN [major |-> parseInt(match.nums[1]),
           minor |-> parseInt(match.nums[2]),
           patch |-> parseInt(match.nums[3]),
           suffix |-> match.pre]
     ELSE [major |-> 0, minor |-> 0, patch |-> 0, suffix |-> Some(NewSuffix)]

\* a Version literal without a suffix key
Version(major, minor, patch) ==
  [major |-> major, minor |-> minor, patch |-> patch, suffix |-> Undefined]

\* isFirstBefore that looks at the first version's suffix only
isFirstBeforeAnySecond(first, second) ==
  IF first.major # second.major THEN first.major < second.major
  ELSE IF first.minor # second.minor THEN first.minor < second.minor
  ELSE IF first.patch # second.patch THEN first.patch < second.patch
  ELSE Truthy(first.suffix)

\* lines 31-41
isFirstBefore(first, second) ==
  IF first.major # second.major THEN first.major < second.major
  ELSE IF first.minor # second.minor THEN first.minor < second.minor
  ELSE IF first.patch # second.patch THEN first.patch < second.patch
  ELSE Truthy(first.suffix) /\ ~Truthy(second.suffix)

\* src/.scripts/lib/version.ts lines 28-38
firstIsBefore(first, second) ==
  IF first.major # second.major THEN first.major < second.major
  ELSE IF first.minor # second.minor THEN first.minor < second.minor
  ELSE IF first.patch # second.patch THEN first.patch < second.patch
  ELSE Truthy(first.suffix) /\ ~Truthy(second.suffix)

\* `${n}` for a non-negative integer n
RECURSIVE numberToString(_)
numberToString(n) ==
  IF n < 10 THEN <<Digits[n + 1]>>
  ELSE numberToString(n \div 10) \o <<Digits[(n % 10) + 1]>>

\* versionToSemverString without the suffix
versionToSemverStringCoreOnly(version) ==
  numberToString(version.major) \o <<".">> \o numberToString(version.minor) \o <<".">>
    \o numberToString(version.patch)

\* lines 66-70
versionToSemverString(version) ==
  numberToString(version.major) \o <<".">> \o numberToString(version.minor) \o <<".">>
    \o numberToString(version.patch)
    \o (IF Truthy(version.suffix) THEN <<"-">> \o version.suffix[1] ELSE <<>>)

\* lines 72-77: the condition reads version.major twice and version.minor never
versionToHumanString(version) ==
  IF version.major = 0 /\ version.major = 0 /\ version.patch = 0 /\ Truthy(version.suffix)
  THEN <<"[">> \o version.suffix[1] \o <<"]">>
  ELSE versionToSemverString(version)

(***************************************************************************)
(* src/lib/conventional.ts: getAllCommits                                  *)
(***************************************************************************)
\* number of leading characters of s matched by [a-z]+ (greedy)
RECURSIVE leadingLower(_)
leadingLower(s) ==
  IF s # <<>> /\ IsLower(Head(s)) THEN 1 + leadingLower(Tail(s)) ELSE 0

\* what is left of s after (\([^)]+\))? : the group is "(" , one or more
\* characters other than ")", and ")"
afterScope(s) ==
  LET close == indexOf(s, ")")
  IN IF s # <<>> /\ s[1] = "(" /\ close >= 2 THEN sliceFrom(s, close + 1) ELSE s

BangColon == <<"!", ":">>
Colon == <<":">>

\* /^feat(\([^)]+\))?!?:/
FEAT_REGEX_test(message) ==
  /\ startsWith(message, <<"f", "e", "a", "t">>)
  /\ LET rest == afterScope(sliceFrom(message, 4))
     IN startsWith(rest, BangColon) \/ startsWith(rest, Colon)

\* /^[a-z]+(\([^)]+\))?!:/
BREAKING_CHANGE_REGEX_test(message) ==
  LET n == leadingLower(message)
  IN n >= 1 /\ startsWith(afterScope(sliceFrom(message, n)), BangColon)

\* /^[a-z]+(\([^)]+\))?!?:/
CONVENTIONAL_COMMIT_REGEX_test(message) ==
  LET n == leadingLower(message)
      rest == afterScope(sliceFrom(message, n))
  IN n >= 1 /\ (startsWith(rest, BangColon) \/ startsWith(rest, Colon))

BreakingMarker ==
  <<"B", "R", "E", "A", "K", "I", "N", "G", " ", "C", "H", "A", "N", "G", "E", ":", " ">>

\* semverOf with the feat test of line 40 made before the breaking test of line 38
semverOfFeatFirst(message, footer) ==
  IF FEAT_REGEX_test(message) THEN "minor"
  ELSE IF BREAKING_CHANGE_REGEX_test(message) \/ includes(footer, BreakingMarker) THEN "major"
  ELSE IF CONVENTIONAL_COMMIT_REGEX_test(message) THEN "patch"
  ELSE "unknown"

\* lines 37-44: the impact of one commit
semverOf(message, footer) ==
  IF BREAKING_CHANGE_REGEX_test(message) \/ includes(footer, BreakingMarker) THEN "major"
  ELSE IF FEAT_REGEX_test(message) THEN "minor"
  ELSE IF CONVENTIONAL_COMMIT_REGEX_test(message) THEN "patch"
  ELSE "unknown"

TagPrefix == <<"t", "a", "g", ":", " ", "v">>
IsTagPart(part) == startsWith(part, TagPrefix)
IsSemverPart(part) == SEMVER_REGEX_test(part)

\* lines 25-31: the versions of the tags among a commit's ref names
versionsOf(refNames) ==
  LET parts == split(refNames, ",")
      trimmed == [n \in DOMAIN parts |-> trim(parts[n])]
      tags == SelectSeq(trimmed, IsTagPart)
      sliced == [n \in DOMAIN tags |-> sliceFrom(tags[n], 6)]
      valid == SelectSeq(sliced, IsSemverPart)
  IN [n \in DOMAIN valid |-> parseVersion(valid[n])]

\* lines 33-36: subject and footer of a commit's text
messageOf(body) ==
  LET firstNewlineIndex == indexOf(body, "\n")
  IN IF firstNewlineIndex = -1 THEN trim(body) ELSE trim(slice(body, 0, firstNewlineIndex))

footerOf(body) ==
  LET firstNewlineIndex == indexOf(body, "\n")
  IN IF firstNewlineIndex = -1 THEN <<>> ELSE trim(sliceFrom(body, firstNewlineIndex + 1))

\* lines 45-51: the Commit record of one commit of the log
toCommit(raw) ==
  LET message == messageOf(raw.body)
      footer == footerOf(raw.body)
  IN [hash |-> raw.hash,
      message |-> message,
      footer |-> footer,
      versions |-> versionsOf(raw.refNames),
      semver |-> semverOf(message, footer)]

\* line 17: what `git log --format=format:'%H$%D%n%B'` prints for the commits of
\* the repository, newest first: per commit the hash, "$", the ref names, a
\* newline and the raw message; a newline between two commits
RECURSIVE gitLog(_)
gitLog(log) ==
  IF log = <<>> THEN <<>>
  ELSE Head(log).hash \o <<"$">> \o Head(log).refNames \o <<"\n">> \o Head(log).body
         \o (IF Len(log) = 1 THEN <<>> ELSE <<"\n">> \o gitLog(Tail(log)))

IsHex(c) == IsDigit(c) \/ c \in {"a", "b", "c", "d", "e", "f"}
IsLineTerminator(c) == c \in {"\n", "\r"}

\* line 18: whether /(?<=^|\n)([\da-f]{40})\$(.*)/ matches at 0-based index at
matchesAt(text, at) ==
  /\ at = 0 \/ text[at] = "\n"
  /\ at + HashLen + 1 <= Len(text)
  /\ \A n \in 1..HashLen : IsHex(text[at + n])
  /\ text[at + HashLen + 1] = "$"

\* line 18: the indices of the matches from index at on, in text order
RECURSIVE matchIndices(_, _)
matchIndices(text, at) ==
  IF at >= Len(text) THEN <<>>
  ELSE (IF matchesAt(text, at) THEN <<at>> ELSE <<>>) \o matchIndices(text, at + 1)

\* (.*) from 0-based index at: up to the end of the line
RECURSIVE restOfLine(_, _)
restOfLine(text, at) ==
  IF at >= Len(text) \/ IsLineTerminator(text[at + 1]) THEN <<>>
  ELSE <<text[at + 1]>> \o restOfLine(text, at + 1)

\* lines 22-32: hash, ref names and body of the n-th match
rawCommitAt(text, starts, n) ==
  LET currIndex == starts[n]
      prevIndex == IF n = Len(starts) THEN Len(text) ELSE starts[n + 1]
      refNames == restOfLine(text, currIndex + HashLen + 1)
  IN [hash |-> SubSeq(text, currIndex + 1, currIndex + HashLen),
      refNames |-> refNames,
      body |-> slice(text, currIndex + HashLen + 2 + Len(refNames), prevIndex - 1)]

\* lines 18-54 on the text of the log
commitsOfText(text) ==
  LET starts == matchIndices(text, 0)
  IN [n \in DOMAIN starts |-> toCommit(rawCommitAt(text, starts, n))]

\* lines 16-55
getAllCommits(log) == commitsOfText(gitLog(log))

(***************************************************************************)
(* src/lib/conventional.ts: getCommitsSinceLastRelease                     *)
(***************************************************************************)
\* lines 62-66: the first index at or after i whose hash starts with lastHashLower
RECURSIVE scanHash(_, _, _)
scanHash(all, from, lastHashLower) ==
  IF from < Len(all) /\ ~startsWith(all[from + 1].hash, lastHashLower)
  THEN scanHash(all, from + 1, lastHashLower)
  ELSE from

\* lines 68-72: the first index at or after i whose commit carries a version tag
RECURSIVE scanTag(_, _)
scanTag(all, from) ==
  IF from < Len(all) /\ ~(Len(all[from + 1].versions) > 0)
  THEN scanTag(all, from + 1)
  ELSE from

\* boundaryIndex without the toLowerCase of line 61
boundaryIndexCaseSensitive(all, hashOpt) ==
  IF Truthy(hashOpt) THEN scanHash(all, 0, hashOpt[1]) ELSE scanTag(all, 0)

\* lines 59-73: where the loops leave i
boundaryIndex(all, hashOpt) ==
  IF Truthy(hashOpt) THEN scanHash(all, 0, toLowerCase(hashOpt[1])) ELSE scanTag(all, 0)

\* windowOf keeping the boundary commit itself
windowOfInclusive(all, at) == slice(all, 0, at + 1)

\* line 74
windowOf(all, at) == slice(all, 0, at)

(***************************************************************************)
(* src/lib/conventional.ts: generateRelease                                *)
(***************************************************************************)
UnknownPrefix == <<"u", "n", "k", "n", "o", "w", "n", ":", " ">>

\* incrementAfter without the `increment === "patch"` test of line 100
incrementAfterUnguarded(inc, commit) ==
  IF commit.semver = "major" THEN "major"
  ELSE IF commit.semver = "minor" THEN "minor"
  ELSE inc

\* lines 96-111: one pass of the loop over the pending commits
incrementAfter(inc, commit) ==
  IF commit.semver = "major" THEN "major"
  ELSE IF commit.semver = "minor" /\ inc = "patch" THEN "minor"
  ELSE inc

majorsAfter(list, commit) ==
  IF commit.semver = "major" THEN Append(list, commit) ELSE list

minorsAfter(list, commit) ==
  IF commit.semver = "minor" THEN Append(list, commit) ELSE list

\* patchesAfter without the final else branch of lines 106-111
patchesAfterDropUnknown(list, commit) ==
  IF commit.semver = "patch" THEN Append(list, commit) ELSE list

patchesAfter(list, commit) ==
  IF commit.semver = "major" \/ commit.semver = "minor" THEN list
  ELSE IF commit.semver = "patch" THEN Append(list, commit)
  ELSE Append(list, [commit EXCEPT !.message = UnknownPrefix \o commit.message])

\* nextVersion with a major bump tried before the X.0.0 rule of line 115
nextVersionMajorBeforeNormalize(p, inc) ==
  IF inc = "major" /\ p.major >= 1 THEN Version(p.major + 1, 0, 0)
  ELSE IF p.major >= 1 /\ isFirstBefore(p, Version(p.major, 0, 0)) THEN Version(p.major, 0, 0)
  ELSE IF isFirstBefore(p, Version(0, 1, 0)) THEN Version(p.major, 1, 0)
  ELSE IF inc = "major" THEN Version(p.major + 1, 0, 0)
  ELSE IF inc = "minor" THEN Version(p.major, p.minor + 1, 0)
  ELSE Version(p.major, p.minor, p.patch + 1)

\* nextVersion with the X.0.0 rule taken for every nonzero minor or patch
nextVersionNormalizeNonzero(p, inc) ==
  IF p.major >= 1 /\ (p.minor # 0 \/ p.patch # 0 \/ Truthy(p.suffix)) THEN Version(p.major, 0, 0)
  ELSE IF isFirstBefore(p, Version(0, 1, 0)) THEN Version(p.major, 1, 0)
  ELSE IF inc = "major" THEN Version(p.major + 1, 0, 0)
  ELSE IF inc = "minor" THEN Version(p.major, p.minor + 1, 0)
  ELSE Version(p.major, p.minor, p.patch + 1)

\* nextVersion with a major bump tried before the 0.1.0 rule of line 117
nextVersionMajorBeforeBootstrap(p, inc) ==
  IF p.major >= 1 /\ isFirstBefore(p, Version(p.major, 0, 0)) THEN Version(p.major, 0, 0)
  ELSE IF inc = "major" THEN Version(p.major + 1, 0, 0)
  ELSE IF isFirstBefore(p, Version(0, 1, 0)) THEN Version(p.major, 1, 0)
  ELSE IF inc = "minor" THEN Version(p.major, p.minor + 1, 0)
  ELSE Version(p.major, p.minor, p.patch + 1)

\* nextVersion whose 0.1.0 rule keeps prev's minor number
nextVersionBootstrapKeepsMinor(p, inc) ==
  IF p.major >= 1 /\ isFirstBefore(p, Version(p.major, 0, 0)) THEN Version(p.major, 0, 0)
  ELSE IF isFirstBefore(p, Version(0, 1, 0)) THEN Version(p.major, p.minor, 0)
  ELSE IF inc = "major" THEN Version(p.major + 1, 0, 0)
  ELSE IF inc = "minor" THEN Version(p.major, p.minor + 1, 0)
  ELSE Version(p.major, p.minor, p.patch + 1)

\* nextVersion that repeats prev when no commit asks for a major or minor bump
nextVersionKeepsPatch(p, inc) ==
  IF p.major >= 1 /\ isFirstBefore(p, Version(p.major, 0, 0)) THEN Version(p.major, 0, 0)
  ELSE IF isFirstBefore(p, Version(0, 1, 0)) THEN Version(p.major, 1, 0)
  ELSE IF inc = "major" THEN Version(p.major + 1, 0, 0)
  ELSE IF inc = "minor" THEN Version(p.major, p.minor + 1, 0)
  ELSE Version(p.major, p.minor, p.patch)

\* lines 114-127
nextVersion(p, inc) ==
  IF p.major >= 1 /\ isFirstBefore(p, Version(p.major, 0, 0)) THEN Version(p.major, 0, 0)
  ELSE IF isFirstBefore(p, Version(0, 1, 0)) THEN Version(p.major, 1, 0)
  ELSE IF inc = "major" THEN Version(p.major + 1, 0, 0)
  ELSE IF inc = "minor" THEN Version(p.major, p.minor + 1, 0)
  ELSE Version(p.major, p.minor, p.patch + 1)

(***************************************************************************)
(* Inputs                                                                  *)
(***************************************************************************)
HashLeads == <<"a", "b", "c", "d", "e", "f">>
hashAt(n) == [m \in 1..HashLen |-> IF m = 1 THEN HashLeads[n] ELSE Digits[n + 1]]

BodyPool ==
  { <<"f", "e", "a", "t", "!", ":", " ", "z", "\n">>,
    <<"f", "e", "a", "t", ":", " ", "y", "\n">>,
    <<"f", "i", "x", ":", " ", "x", "\n">>,
    <<"w", "i", "p", "\n">> }

RcSuffix == <<"r", "c">>
SuffixPool == {Undefined, Some(NewSuffix), Some(RcSuffix)}

\* the line `npm show` prints for a published version
versionLine(major, minor, patch, suffix) ==
  <<Digits[major + 1], ".", Digits[minor + 1], ".", Digits[patch + 1]>>
    \o (IF suffix = Undefined THEN <<>> ELSE <<"-">> \o suffix[1]) \o <<"\n">>

PublishedLines ==
  {versionLine(a, b, c, s) : a \in 0..MaxNum, b \in 0..MaxNum, c \in 0..MaxNum, s \in SuffixPool}

\* histories whose n-th commit has hash hashAt(n), no ref names and a body of BodyPool
Histories ==
  UNION {{[n \in 1..len |-> [hash |-> hashAt(n), refNames |-> <<>>, body |-> bodies[n]]]
            : bodies \in [1..len -> BodyPool]} : len \in 0..MaxCommits}

NoVersion == Version(0, 0, 0)

\* a package.json with a name and nothing else the model reads
PackageName == <<"p">>
NamedPackage == [name |-> Some(PackageName), scripts |-> {}, dist |-> <<>>]

\* no version function is under study
VersionIdle == operands = <<>> /\ answers = <<>>

\* publish is not running
PublishIdle ==
  /\ cfg = [dryRun |-> FALSE]
  /\ npmrc = "file"
  /\ done = <<>>
  /\ ran = <<>>
  /\ logged = <<>>
  /\ written = <<>>
  /\ asks = 0
  /\ answer = Undefined
  /\ returned = Undefined

\* a named package whose version the registry knows
EnvIdle == packageJson = NamedPackage /\ registry = "published" /\ thrown = Undefined

Init ==
  /\ pc = "start"
  /\ \/ /\ packageJson = NamedPackage
        /\ registry = "published"
        /\ currVersionStr \in PublishedLines
     \/ /\ packageJson = NamedPackage
        /\ registry \in {"unpublished", "offline"}
        /\ currVersionStr = <<>>
     \/ /\ packageJson \in {[NamedPackage EXCEPT !.name = Undefined],
                            [NamedPackage EXCEPT !.name = Some(<<>>)]}
        /\ registry = "published"
        /\ currVersionStr = <<>>
  /\ thrown = Undefined
  /\ rawLog \in Histories
  /\ lastHash \in {Undefined, Some(<<"C">>)}
  /\ allCommits = <<>>
  /\ i = 0
  /\ prev = NoVersion
  /\ commits = <<>>
  /\ k = 0
  /\ increment = "patch"
  /\ majors = <<>>
  /\ minors = <<>>
  /\ patches = <<>>
  /\ next = NoVersion
  /\ output = <<>>
  /\ VersionIdle
  /\ PublishIdle

UnreleasedLine == <<"0", ".", "0", ".", "0", "-", "n", "e", "w">>

\* version.ts lines 43-64: the message of the Error getPublishedVersion throws
getPublishedVersionError(pkg, reg) ==
  IF ~Truthy(pkg.name) THEN Some("package.json needs a name")
  ELSE IF reg = "offline" THEN Some("need to be online to determine latest npm version")
  ELSE Undefined

\* version.ts lines 50-62: currVersionStr, from `npm show` or the catch block
currVersionStrOf(reg, shown) == IF reg = "published" THEN shown ELSE UnreleasedLine

\* line 87, version.ts lines 43-64
GetPublishedVersion ==
  /\ pc = "start"
  /\ thrown' = getPublishedVersionError(packageJson, registry)
  /\ IF thrown' # Undefined
     THEN pc' = "threw" /\ UNCHANGED <<currVersionStr, prev>>
     ELSE /\ currVersionStr' = currVersionStrOf(registry, currVersionStr)
          /\ prev' = parseVersion(currVersionStr')
          /\ pc' = "gotPrev"
  /\ UNCHANGED <<rawLog, lastHash, allCommits, i, commits, k,
                 increment, majors, minors, patches, next, output>>
  /\ UNCHANGED <<versionVars, publishVars, envVars>>

\* line 88
GetCommitsSinceLastRelease ==
  /\ pc = "gotPrev"
  /\ allCommits' = getAllCommits(rawLog)
  /\ i' = boundaryIndex(allCommits', lastHash)
  /\ commits' = windowOf(allCommits', i')
  /\ pc' = "gotCommits"
  /\ UNCHANGED <<currVersionStr, rawLog, lastHash, prev, k,
                 increment, majors, minors, patches, next, output>>
  /\ UNCHANGED restVars

\* lines 95-112, one commit of the window
BucketCommit ==
  /\ pc = "gotCommits"
  /\ k < Len(commits)
  /\ LET commit == commits[k + 1]
     IN /\ increment' = incrementAfter(increment, commit)
        /\ majors' = majorsAfter(majors, commit)
        /\ minors' = minorsAfter(minors, commit)
        /\ patches' = patchesAfter(patches, commit)
  /\ k' = k + 1
  /\ UNCHANGED <<pc, currVersionStr, rawLog, lastHash, allCommits, i, prev, commits,
                 next, output>>
  /\ UNCHANGED restVars

\* lines 114-137
ComputeNext ==
  /\ pc = "gotCommits"
  /\ k = Len(commits)
  /\ next' = nextVersion(prev, increment)
  /\ pc' = "released"
  /\ UNCHANGED <<currVersionStr, rawLog, lastHash, allCommits, i, prev, commits, k,
                 increment, majors, minors, patches, output>>
  /\ UNCHANGED restVars

Next ==
  \/ GetPublishedVersion
  \/ GetCommitsSinceLastRelease
  \/ BucketCommit
  \/ ComputeNext

Spec == Init /\ [][Next]_vars

(***************************************************************************)
(* Properties of generateRelease                                           *)
(***************************************************************************)
HasImpact(window, impact) == \E n \in DOMAIN window : window[n].semver = impact
ImpactsOf(window) == [n \in DOMAIN window |-> window[n].semver]

\* rule 1: prev.major >= 1 and prev before {prev.major, 0, 0}
NormalizeApplies(p) == p.major >= 1 /\ isFirstBefore(p, Version(p.major, 0, 0))
\* rule 2: prev before {0, 1, 0}
BootstrapApplies(p) == isFirstBefore(p, Version(0, 1, 0))

\* the bump the pending window asks for, read off the window as a whole
BumpedVersion(p, window) ==
  IF HasImpact(window, "major") THEN Version(p.major + 1, 0, 0)
  ELSE IF HasImpact(window, "minor") THEN Version(p.major, p.minor + 1, 0)
  ELSE Version(p.major, p.minor, p.patch + 1)

\* C1: when neither override rule applies, the next version is
\* {major+1,0,0} if some pending commit has major impact, else
\* {major,minor+1,0} if some pending commit has minor impact, else
\* {major,minor,patch+1}; it depends only on which impacts occur in the
\* window, not on their order.
C1_AggregatedBump ==
  (pc = "released" /\ ~NormalizeApplies(prev) /\ ~BootstrapApplies(prev))
    => next = BumpedVersion(prev, commits)

\* prev 1.1.1 with fix, feat, feat! (oldest last) gives 2.0.0
C1_Witness ==
  /\ pc = "released"
  /\ prev = Version(1, 1, 1)
  /\ ImpactsOf(commits) = <<"major", "minor", "patch">>
  /\ next = Version(2, 0, 0)

\* C2: if prev.major >= 1 and prev is before {prev.major,0,0}, the next
\* version is {prev.major,0,0} for every pending window, also one with a
\* major-impact commit.
C2_NormalizeOverride ==
  (pc = "released" /\ prev.major >= 1 /\ isFirstBefore(prev, Version(prev.major, 0, 0)))
    => next = Version(prev.major, 0, 0)

C2_Witness ==
  /\ pc = "released"
  /\ prev.major >= 1
  /\ isFirstBefore(prev, Version(prev.major, 0, 0))
  /\ HasImpact(commits, "major")
  /\ next = Version(prev.major, 0, 0)

\* C3 as stated: every prev with major >= 1 and a nonzero minor or patch is
\* forced to {prev.major,0,0}.
C3_Original ==
  (pc = "released" /\ prev.major >= 1 /\ (prev.minor # 0 \/ prev.patch # 0))
    => next = Version(prev.major, 0, 0)

\* C3 (amended): for prev.major >= 1 the next version is forced to
\* {prev.major,0,0} exactly when prev.minor = prev.patch = 0 and prev carries a
\* suffix; a prev with a nonzero minor or patch gets the aggregated bump of
\* its window, which is never {prev.major,0,0}.
C3_NormalizeOnlySuffixed ==
  (pc = "released" /\ prev.major >= 1) =>
    IF prev.minor = 0 /\ prev.patch = 0 /\ Truthy(prev.suffix)
    THEN next = Version(prev.major, 0, 0)
    ELSE next = BumpedVersion(prev, commits) /\ next # Version(prev.major, 0, 0)

\* a prev with nonzero minor and patch and a window with a major commit
C3_Witness ==
  /\ pc = "released"
  /\ prev.major >= 1
  /\ prev.minor # 0
  /\ prev.patch # 0
  /\ HasImpact(commits, "major")
  /\ next = Version(prev.major + 1, 0, 0)

\* C4: if rule 1 does not apply and prev is before {0,1,0}, the next version
\* is {prev.major,1,0}, which is 0.1.0, whatever the pending commits are.
C4_BootstrapOverride ==
  (pc = "released" /\ ~NormalizeApplies(prev) /\ isFirstBefore(prev, Version(0, 1, 0)))
    => (next = Version(prev.major, 1, 0) /\ next = Version(0, 1, 0))

\* the {0,0,0,"new"} sentinel with a major commit pending
C4_Witness ==
  /\ pc = "released"
  /\ prev = [major |-> 0, minor |-> 0, patch |-> 0, suffix |-> Some(NewSuffix)]
  /\ HasImpact(commits, "major")
  /\ next = Version(0, 1, 0)

IsMajor(commit) == commit.semver = "major"
IsMinor(commit) == commit.semver = "minor"
IsPatchOrUnknown(commit) == commit.semver = "patch" \/ commit.semver = "unknown"
Rewritten(commit) ==
  IF commit.semver = "unknown"
  THEN [commit EXCEPT !.message = UnknownPrefix \o commit.message]
  ELSE commit

\* C5: after k commits of the window, majors, minors and patches are the
\* major, minor and patch-or-unknown commits among them, each in window order,
\* an unknown commit with "unknown: " before its message; so every commit is in
\* exactly one bucket and the sizes add up to k.
C5_BucketsPartition ==
  LET handled == SubSeq(commits, 1, k)
      rest == SelectSeq(handled, IsPatchOrUnknown)
  IN /\ majors = SelectSeq(handled, IsMajor)
     /\ minors = SelectSeq(handled, IsMinor)
     /\ patches = [n \in DOMAIN rest |-> Rewritten(rest[n])]
     /\ Len(majors) + Len(minors) + Len(patches) = k

C5_Witness ==
  /\ pc = "released"
  /\ k = 3
  /\ Len(majors) = 1
  /\ Len(minors) = 1
  /\ Len(patches) = 1
  /\ patches[1].semver = "unknown"
  /\ startsWith(patches[1].message, UnknownPrefix)

\* C22: for every previous version, with or without suffix and the "new"
\* sentinel included, and every pending window, the next version
\* generateRelease computes is strictly after the previous one:
\* isFirstBefore(prev, next).
C22_NextAfterPrev ==
  pc = "released" => isFirstBefore(prev, next)

\* 0.1.1-rc is followed by 0.1.2
C22_Witness ==
  /\ pc = "released"
  /\ prev = [major |-> 0, minor |-> 1, patch |-> 1, suffix |-> Some(RcSuffix)]
  /\ next = Version(0, 1, 2)
  /\ isFirstBefore(prev, next) /\ ~isFirstBefore(next, prev)

\* generateRelease has ended, by returning or by throwing
Ended == pc \in {"released", "threw"}

\* no boundary was given, no commit read from the log carries a version tag,
\* nothing is pending
AmbiguousWindow ==
  /\ lastHash = Undefined
  /\ \A n \in DOMAIN allCommits : allCommits[n].versions = <<>>
  /\ commits = <<>>

\* the published version could be read
PublishedVersionKnown == getPublishedVersionError(packageJson, registry) = Undefined

MaxPieces == 4

SubjectPieces ==
  { <<"f", "e", "a", "t">>, <<"x">>, <<"(", "x", ")">>, <<"(">>, <<")">>,
    <<"!">>, <<":">>, <<" ">> }

RECURSIVE flatten(_)
flatten(parts) == IF parts = <<>> THEN <<>> ELSE Head(parts) \o flatten(Tail(parts))

Subjects ==
  UNION {{flatten(parts) : parts \in [1..len -> SubjectPieces]} : len \in 0..MaxPieces}

FooterPool ==
  { BreakingMarker \o <<"q">>,
    <<"B", "R", "E", "A", "K", "I", "N", "G", " ", "C", "H", "A", "N", "G", "E", ":", "q">>,
    <<"s", "e", "e", "\n">> \o BreakingMarker \o <<"q">> }

\* the text of a commit: the subject alone, the subject and a newline, or the
\* subject, a blank line and a footer
BodiesOf(subject) ==
  {subject, subject \o <<"\n">>}
    \cup {subject \o <<"\n", "\n">> \o footer \o <<"\n">> : footer \in FooterPool}

InitClassify ==
  /\ pc = "log"
  /\ \E subject \in Subjects : \E body \in BodiesOf(subject) :
       rawLog = <<[hash |-> hashAt(1), refNames |-> <<>>, body |-> body]>>
  /\ currVersionStr = <<>>
  /\ lastHash = Undefined
  /\ allCommits = <<>>
  /\ i = 0
  /\ prev = NoVersion
  /\ commits = <<>>
  /\ k = 0
  /\ increment = "patch"
  /\ majors = <<>>
  /\ minors = <<>>
  /\ patches = <<>>
  /\ next = NoVersion
  /\ output = <<>>
  /\ VersionIdle
  /\ PublishIdle
  /\ EnvIdle

\* lines 16-55 on the commits of the log
ParseLog ==
  /\ pc = "log"
  /\ allCommits' = getAllCommits(rawLog)
  /\ pc' = "parsed"
  /\ UNCHANGED <<currVersionStr, rawLog, lastHash, i, prev, commits, k,
                 increment, majors, minors, patches, next, output>>
  /\ UNCHANGED restVars

NextClassify == ParseLog

SpecClassify == InitClassify /\ [][NextClassify]_vars

\* m[from..] begins with tail
BeginsAt(m, from, tail) ==
  from + Len(tail) - 1 <= Len(m) /\ SubSeq(m, from, from + Len(tail) - 1) = tail

\* m reads <type>[(scope)]<tail> from its first character, the type being its
\* first typeLen characters: either the tail follows the type at once, or a
\* scope "(", one or more characters other than ")", ")" stands between them
ReadsTypeScopeTail(m, typeLen, tail) ==
  \/ BeginsAt(m, typeLen + 1, tail)
  \/ /\ typeLen + 1 <= Len(m)
     /\ m[typeLen + 1] = "("
     /\ \E close \in (typeLen + 3)..Len(m) :
          /\ m[close] = ")"
          /\ \A n \in (typeLen + 2)..(close - 1) : m[n] # ")"
          /\ BeginsAt(m, close + 1, tail)

IsTypeOfLength(m, typeLen) ==
  typeLen >= 1 /\ typeLen <= Len(m) /\ \A n \in 1..typeLen : IsLower(m[n])

\* <type>[(scope)]!:
HasBangForm(m) ==
  \E typeLen \in 1..Len(m) : IsTypeOfLength(m, typeLen) /\ ReadsTypeScopeTail(m, typeLen, <<"!", ":">>)

\* <type>[(scope)]!?:
HasConventionalForm(m) ==
  \E typeLen \in 1..Len(m) :
    /\ IsTypeOfLength(m, typeLen)
    /\ ReadsTypeScopeTail(m, typeLen, <<"!", ":">>) \/ ReadsTypeScopeTail(m, typeLen, <<":">>)

\* feat[(scope)]!?:
HasFeatForm(m) ==
  /\ BeginsAt(m, 1, <<"f", "e", "a", "t">>)
  /\ ReadsTypeScopeTail(m, 4, <<"!", ":">>) \/ ReadsTypeScopeTail(m, 4, <<":">>)

HasBreakingMarker(footer) ==
  \E before \in 0..Len(footer) : BeginsAt(footer, before + 1, BreakingMarker)

\* C6: every commit gets exactly one impact, by this priority: major if the
\* subject reads <type>[(scope)]!: or the footer contains "BREAKING CHANGE: ",
\* else minor if the subject reads feat[(scope)]!?:, else patch if it reads
\* <type>[(scope)]!?:, else unknown.
C6_ImpactPriority ==
  \A n \in DOMAIN allCommits :
    LET c == allCommits[n]
    IN c.semver =
         IF HasBangForm(c.message) \/ HasBreakingMarker(c.footer) THEN "major"
         ELSE IF HasFeatForm(c.message) THEN "minor"
         ELSE IF HasConventionalForm(c.message) THEN "patch"
         ELSE "unknown"

\* a subject that is no conventional commit, made major by its footer
C6_Witness ==
  /\ pc = "parsed"
  /\ ~HasConventionalForm(allCommits[1].message)
  /\ HasBreakingMarker(allCommits[1].footer)
  /\ allCommits[1].semver = "major"

(***************************************************************************)
(* getAllCommits on histories of several commits (lines 16-55)             *)
(***************************************************************************)
\* a line of a commit message: a word of HashLen hexadecimal digits, "$", text
HashLikeLine == hashAt(4) \o <<"$", "x">>

LogBodies ==
  { <<"f", "i", "x", ":", " ", "x", "\n">>,
    <<"f", "e", "a", "t", ":", " ", "y", "\n", "\n", "s", "e", "e", "\n">>,
    <<"w", "i", "p", " ", "$", "1", "\n">>,
    <<"f", "i", "x", ":", " ", "x">>,
    <<"f", "e", "a", "t", ":", " ", "y", "\n", "\n", "s", "e", "e">>,
    <<>>,
    <<"f", "i", "x", ":", " ", "x", "\n", "\n">> \o HashLikeLine \o <<"\n">> }

LogRefNames == {<<>>, <<"t", "a", "g", ":", " ", "v", "1", ".", "0", ".", "0">>}

\* the history whose n-th commit has hash hashAt(n), ref names refs[n] and text bodies[n]
loggedHistory(bodies, refs) ==
  [n \in DOMAIN bodies |-> [hash |-> hashAt(n), refNames |-> refs[n], body |-> bodies[n]]]

InitParse ==
  /\ pc = "log"
  /\ \E len \in 1..MaxCommits :
       \E bodies \in [1..len -> LogBodies], refs \in [1..len -> LogRefNames] :
         rawLog = loggedHistory(bodies, refs)
  /\ currVersionStr = <<>>
  /\ lastHash = Undefined
  /\ allCommits = <<>>
  /\ i = 0
  /\ prev = NoVersion
  /\ commits = <<>>
  /\ k = 0
  /\ increment = "patch"
  /\ majors = <<>>
  /\ minors = <<>>
  /\ patches = <<>>
  /\ next = NoVersion
  /\ output = <<>>
  /\ VersionIdle
  /\ PublishIdle
  /\ EnvIdle

NextParse == ParseLog

SpecParse == InitParse /\ [][NextParse]_vars

HashesOf(records) == [n \in DOMAIN records |-> records[n].hash]

\* C20: getAllCommits returns exactly one record per commit of the log, in
\* the log's order, whatever the messages contain: no line of a message is
\* taken as the start of another commit.
C20_OneRecordPerCommit ==
  pc = "parsed" => HashesOf(allCommits) = HashesOf(rawLog)

\* the text before the first newline of a commit's text, all of it if there is none
SubjectOf(text) == IF indexOf(text, "\n") = -1 THEN text ELSE slice(text, 0, indexOf(text, "\n"))
\* the text after the first newline, nothing if there is none
RemainderOf(text) == IF indexOf(text, "\n") = -1 THEN <<>> ELSE sliceFrom(text, indexOf(text, "\n") + 1)

\* no commit of the log holds a line that reads like a header
NoHashLikeLine == \A n \in DOMAIN rawLog : ~includes(rawLog[n].body, HashLikeLine)

\* C21: for every commit, the oldest included, getAllCommits reads the whole
\* text of the commit up to the next header or the end of the input, also
\* when the input does not end with a newline: message is the trimmed text
\* before the first newline (all of it if there is none) and footer is the
\* trimmed remainder (empty if there is none).
C21_WholeBody ==
  (pc = "parsed" /\ NoHashLikeLine) =>
    /\ Len(allCommits) = Len(rawLog)
    /\ \A n \in DOMAIN rawLog :
         /\ allCommits[n].message = trim(SubjectOf(rawLog[n].body))
         /\ allCommits[n].footer = trim(RemainderOf(rawLog[n].body))

(***************************************************************************)
(* getCommitsSinceLastRelease on its own (lines 57-75)                     *)
(***************************************************************************)
\* a hash that begins with lead, filled up with zeros to HashLen characters
padded(lead) == lead \o [n \in 1..(HashLen - Len(lead)) |-> "0"]

HashPool == {padded(<<"a", "b">>), padded(<<"a", "c">>), padded(<<"b">>), padded(<<"c">>)}

RefNamesPool ==
  { <<>>,
    <<"H", "E", "A", "D", " ", "-", ">", " ", "m", "a", "i", "n", ",", " ",
      "t", "a", "g", ":", " ", "v", "1", ".", "2", ".", "0">>,
    <<"t", "a", "g", ":", " ", "v", "n", "e", "x", "t", ",", " ",
      "o", "r", "i", "g", "i", "n", "/", "m", "a", "i", "n">> }

BoundaryPool ==
  { Undefined, Some(<<>>), Some(<<"A">>), Some(<<"a", "c">>), Some(<<"B">>),
    Some(<<"a", "l", "l">>), Some(<<"f">>) }

FixBody == <<"f", "i", "x", ":", " ", "x", "\n">>

\* histories of commits with pairwise different hashes
TaggedHistories ==
  UNION {{[n \in 1..len |-> [hash |-> hashes[n], refNames |-> refs[n], body |-> FixBody]]
            : hashes \in {h \in [1..len -> HashPool] :
                            \A a, b \in 1..len : a # b => h[a] # h[b]},
              refs \in [1..len -> RefNamesPool]} : len \in 0..MaxCommits}

InitWindow ==
  /\ pc = "call"
  /\ rawLog \in TaggedHistories
  /\ lastHash \in BoundaryPool
  /\ currVersionStr = <<>>
  /\ allCommits = <<>>
  /\ i = 0
  /\ prev = NoVersion
  /\ commits = <<>>
  /\ k = 0
  /\ increment = "patch"
  /\ majors = <<>>
  /\ minors = <<>>
  /\ patches = <<>>
  /\ next = NoVersion
  /\ output = <<>>
  /\ VersionIdle
  /\ PublishIdle
  /\ EnvIdle

\* lines 57-75
SelectWindow ==
  /\ pc = "call"
  /\ allCommits' = getAllCommits(rawLog)
  /\ i' = boundaryIndex(allCommits', lastHash)
  /\ commits' = windowOf(allCommits', i')
  /\ pc' = "returned"
  /\ UNCHANGED <<currVersionStr, rawLog, lastHash, prev, k,
                 increment, majors, minors, patches, next, output>>
  /\ UNCHANGED restVars

NextWindow == SelectWindow

SpecWindow == InitWindow /\ [][NextWindow]_vars

\* the commits strictly newer than the newest commit of `hits`, all of them
\* when there is no hit
NewerThanFirst(all, hits) ==
  IF hits = {} THEN all
  ELSE SubSeq(all, 1, (CHOOSE n \in hits : \A m \in hits : n <= m) - 1)

IsPrefixOf(part, all) == Len(part) <= Len(all) /\ part = SubSeq(all, 1, Len(part))

C8_TagWindow ==
  (pc = "returned" /\ ~Truthy(lastHash)) =>
    LET hits == {n \in DOMAIN allCommits : allCommits[n].versions # <<>>}
    IN /\ commits = NewerThanFirst(allCommits, hits)
       /\ hits = {} => commits = allCommits
       /\ IsPrefixOf(commits, allCommits)

\* the newest commit has only a tag that is no version, the next two are tagged
C8_Witness ==
  /\ pc = "returned"
  /\ lastHash = Undefined
  /\ Len(rawLog) = 3
  /\ rawLog[1].refNames # <<>>
  /\ allCommits[1].versions = <<>>
  /\ allCommits[2].versions # <<>>
  /\ allCommits[3].versions # <<>>
  /\ commits = <<allCommits[1]>>

(***************************************************************************)
(* src/lib/conventional.ts: generateChangelogMarkdown, toMarkdownList      *)
(***************************************************************************)
Newline == <<"\n">>
BlankLine == <<"\n", "\n">>
Bullet == <<"-", " ">>

MajorHeading ==
  <<"#", " ", "M", "a", "j", "o", "r", " ", "c", "h", "a", "n", "g", "e", "s", " ",
    "(", "b", "r", "e", "a", "k", "i", "n", "g", ")">>
MinorHeading ==
  <<"#", " ", "F", "e", "a", "t", "u", "r", "e", " ", "u", "p", "d", "a", "t", "e", "s">>
PatchHeading ==
  <<"#", " ", "O", "t", "h", "e", "r", " ", "c", "o", "m", "m", "i", "t", "s">>

\* line 153
bulletsOf(list) == [n \in DOMAIN list |-> Bullet \o list[n].message]

\* line 154: the elements of arr from index n on that differ from the element
\* of arr just before them (the first element of arr is always kept)
RECURSIVE keepChanged(_, _)
keepChanged(arr, n) ==
  IF n > Len(arr) THEN <<>>
  ELSE (IF n = 1 \/ arr[n - 1] # arr[n] THEN <<arr[n]>> ELSE <<>>) \o keepChanged(arr, n + 1)

\* keepChanged that drops every element seen anywhere before it
RECURSIVE keepUnseen(_, _)
keepUnseen(arr, n) ==
  IF n > Len(arr) THEN <<>>
  ELSE (IF \A m \in 1..(n - 1) : arr[m] # arr[n] THEN <<arr[n]>> ELSE <<>>)
         \o keepUnseen(arr, n + 1)

\* toMarkdownList as a deduplication of the whole list
toMarkdownListGlobal(list) == join(keepUnseen(bulletsOf(list), 1), Newline)

\* lines 151-155
toMarkdownList(list) == join(keepChanged(bulletsOf(list), 1), Newline)

\* lines 141-143: one entry of the array literal
sectionOf(heading, list) ==
  IF Len(list) > 0 THEN heading \o BlankLine \o toMarkdownList(list) ELSE <<>>

IsNonEmpty(text) == text # <<>>

\* generateChangelogMarkdown with the sections joined by a single newline
generateChangelogMarkdownTight(ma, mi, pa) ==
  LET joined == join(SelectSeq(<<sectionOf(MajorHeading, ma), sectionOf(MinorHeading, mi),
                                 sectionOf(PatchHeading, pa)>>, IsNonEmpty), Newline)
  IN IF joined # <<>> THEN joined \o Newline ELSE <<>>

\* lines 139-149
generateChangelogMarkdown(ma, mi, pa) ==
  LET joined == join(SelectSeq(<<sectionOf(MajorHeading, ma), sectionOf(MinorHeading, mi),
                                 sectionOf(PatchHeading, pa)>>, IsNonEmpty), BlankLine)
  IN IF joined # <<>> THEN joined \o Newline ELSE <<>>

\* longest bucket drawn for the changelog
MaxBucket == 3

MessagePool == { <<"f", "i", "x", ":", " ", "a">>, <<"w", "i", "p">> }

commitWith(message, impact) ==
  [hash |-> hashAt(1), message |-> message, footer |-> <<>>, versions |-> <<>>,
   semver |-> impact]

BucketsOf(impact) ==
  UNION {{[n \in 1..len |-> commitWith(messages[n], impact)]
            : messages \in [1..len -> MessagePool]} : len \in 0..MaxBucket}

InitChangelog ==
  /\ pc = "releaseData"
  /\ majors \in BucketsOf("major")
  /\ minors \in BucketsOf("minor")
  /\ patches \in BucketsOf("patch")
  /\ currVersionStr = <<>>
  /\ rawLog = <<>>
  /\ lastHash = Undefined
  /\ allCommits = <<>>
  /\ i = 0
  /\ prev = NoVersion
  /\ commits = <<>>
  /\ k = 0
  /\ increment = "patch"
  /\ next = NoVersion
  /\ output = <<>>
  /\ VersionIdle
  /\ PublishIdle
  /\ EnvIdle

\* lines 139-149
GenerateChangelogMarkdown ==
  /\ pc = "releaseData"
  /\ output' = generateChangelogMarkdown(majors, minors, patches)
  /\ pc' = "rendered"
  /\ UNCHANGED <<currVersionStr, rawLog, lastHash, allCommits, i, prev, commits, k,
                 increment, majors, minors, patches, next>>
  /\ UNCHANGED restVars

NextChangelog == GenerateChangelogMarkdown

SpecChangelog == InitChangelog /\ [][NextChangelog]_vars

(***************************************************************************)
(* Properties of the changelog                                             *)
(***************************************************************************)
HeadingMark == <<"#", " ">>
MajorTitle ==
  <<"M", "a", "j", "o", "r", " ", "c", "h", "a", "n", "g", "e", "s", " ",
    "(", "b", "r", "e", "a", "k", "i", "n", "g", ")">>
MinorTitle == <<"F", "e", "a", "t", "u", "r", "e", " ", "u", "p", "d", "a", "t", "e", "s">>
PatchTitle == <<"O", "t", "h", "e", "r", " ", "c", "o", "m", "m", "i", "t", "s">>

\* the lines of a text: what stands between its newlines
LinesOf(text) == split(text, "\n")

\* the runs of lines between the blank lines of a list of lines; two blank
\* lines in a row, or a blank line at either end, give an empty run
RECURSIVE BlocksOf(_)
BlocksOf(lines) ==
  IF \A n \in DOMAIN lines : lines[n] # <<>> THEN <<lines>>
  ELSE LET at == CHOOSE n \in DOMAIN lines :
                   lines[n] = <<>> /\ \A m \in 1..(n - 1) : lines[m] # <<>>
       IN <<SubSeq(lines, 1, at - 1)>> \o BlocksOf(SubSeq(lines, at + 1, Len(lines)))

HasCommits(bucket) == bucket.list # <<>>

\* the non-empty buckets, in the order Major, Minor, Patch, with their titles
PresentBuckets ==
  SelectSeq(<<[title |-> MajorTitle, list |-> majors],
              [title |-> MinorTitle, list |-> minors],
              [title |-> PatchTitle, list |-> patches]>>, HasCommits)

MessagesOf(list) == [n \in DOMAIN list |-> list[n].message]

\* C9: the changelog is empty when all buckets are empty; otherwise it has,
\* for each non-empty bucket in the order Major, Minor, Patch, its heading, one
\* blank line and a run of bullets of that bucket's messages, consecutive
\* sections one blank line apart, and it ends with exactly one newline.
C9_SectionLayout ==
  pc = "rendered" =>
    LET blocks == BlocksOf(LinesOf(output))
        present == PresentBuckets
    IN IF present = <<>> THEN output = <<>>
       ELSE /\ Len(blocks) = 2 * Len(present) + 1
            /\ \A j \in DOMAIN present :
                 /\ blocks[2 * j - 1] = <<HeadingMark \o present[j].title>>
                 /\ blocks[2 * j] # <<>>
                 /\ Range(blocks[2 * j])
                      = {Bullet \o m : m \in Range(MessagesOf(present[j].list))}
            /\ blocks[Len(blocks)] = <<>>
            /\ output[Len(output)] = "\n"
            /\ output[Len(output) - 1] # "\n"

\* no major commits: the changelog opens with the minor section
C9_Witness ==
  /\ pc = "rendered"
  /\ majors = <<>>
  /\ minors # <<>>
  /\ patches # <<>>
  /\ startsWith(output, MinorHeading \o BlankLine \o Bullet)
  /\ Len(BlocksOf(LinesOf(output))) = 5

\* a list with every run of equal neighbours cut down to one element
RECURSIVE Collapse(_)
Collapse(list) ==
  IF Len(list) <= 1 THEN list
  ELSE IF list[1] = list[2] THEN Collapse(Tail(list))
  ELSE <<list[1]>> \o Collapse(Tail(list))

\* C10: the bullets of each section are its bucket's messages, in order, with
\* every run of equal neighbours collapsed to one bullet; a message that comes
\* back after a different one is kept.
C10_AdjacentDuplicates ==
  pc = "rendered" =>
    LET blocks == BlocksOf(LinesOf(output))
        present == PresentBuckets
    IN \A j \in DOMAIN present :
         LET kept == Collapse(MessagesOf(present[j].list))
         IN /\ 2 * j <= Len(blocks)
            /\ blocks[2 * j] = [n \in DOMAIN kept |-> Bullet \o kept[n]]

\* a run of three equal messages in majors, and a, b, a in minors
C10_Witness ==
  /\ pc = "rendered"
  /\ Len(majors) = 3
  /\ majors[1].message = majors[2].message
  /\ majors[2].message = majors[3].message
  /\ Len(minors) = 3
  /\ minors[1].message = minors[3].message
  /\ minors[1].message # minors[2].message
  /\ Len(BlocksOf(LinesOf(output))[2]) = 1
  /\ Len(BlocksOf(LinesOf(output))[4]) = 3

(***************************************************************************)
(* src/lib/version.ts: parseVersion and the two renderings                 *)
(***************************************************************************)
\* numerals of a version core; the last has a leading zero
Numerals == {<<"0">>, <<"1">>, <<"5">>, <<"1", "2">>, <<"0", "1">>}

\* what follows the core: nothing or "-" and a pre-release; the last two do not
\* fit the pattern
PreReleases ==
  { <<>>,
    <<"-">> \o NewSuffix,
    <<"-">> \o RcSuffix,
    <<"-", "b", "e", "t", "a">>,
    <<"-", "b", "e", "t", "a", ".", "1">>,
    <<"-", "0", "1">>,
    <<"-">> }

\* nothing or "+" and build metadata; the last does not fit the pattern
Builds == {<<>>, <<"+", "b", "1">>, <<"+", "b", ".", "0", "0">>, <<"+">>}

\* white space around the version; `npm show` ends its line with "\n"
Paddings == {<<<<>>, <<>>>>, <<<<>>, <<"\n">>>>, <<<<" ">>, <<>>>>}

\* strings that are no version at all
Unversioned ==
  { <<>>, <<"v", "1", ".", "0", ".", "0">>, <<"1", ".", "0">>, <<"1", ".", "0", ".", "0", ".", "0">>,
    <<"1", ".", " ", "0", ".", "0">>, <<"n", "e", "w">> }

VersionStrings ==
  {pad[1] \o a \o <<".">> \o b \o <<".">> \o c \o pre \o build \o pad[2]
     : a \in Numerals, b \in {<<"0">>, <<"5">>}, c \in {<<"0">>, <<"1">>, <<"0", "1">>},
       pre \in PreReleases, build \in Builds, pad \in Paddings}
    \cup Unversioned

InitVersion ==
  /\ pc = "string"
  /\ operands \in {<<version>> : version \in VersionStrings}
  /\ answers = <<>>
  /\ rawLog = <<>>
  /\ currVersionStr = <<>>
  /\ lastHash = Undefined
  /\ allCommits = <<>>
  /\ i = 0
  /\ prev = NoVersion
  /\ commits = <<>>
  /\ k = 0
  /\ increment = "patch"
  /\ majors = <<>>
  /\ minors = <<>>
  /\ patches = <<>>
  /\ next = NoVersion
  /\ output = <<>>
  /\ PublishIdle
  /\ EnvIdle

modelVars == <<currVersionStr, rawLog, lastHash, allCommits, i, prev, commits, k,
               increment, majors, minors, patches, next, output>>

\* lines 14-29
ParseVersion ==
  /\ pc = "string"
  /\ answers' = <<parseVersion(operands[1])>>
  /\ pc' = "version"
  /\ UNCHANGED <<modelVars, operands, publishVars, envVars, thrown>>

\* lines 66-70
VersionToSemverString ==
  /\ pc = "version"
  /\ answers' = Append(answers, versionToSemverString(answers[1]))
  /\ pc' = "semver"
  /\ UNCHANGED <<modelVars, operands, publishVars, envVars, thrown>>

\* lines 72-77
VersionToHumanString ==
  /\ pc = "semver"
  /\ answers' = Append(answers, versionToHumanString(answers[1]))
  /\ pc' = "human"
  /\ UNCHANGED <<modelVars, operands, publishVars, envVars, thrown>>

NextVersion == ParseVersion \/ VersionToSemverString \/ VersionToHumanString

SpecVersion == InitVersion /\ [][NextVersion]_vars

(***************************************************************************)
(* Properties of parseVersion and the renderings                           *)
(***************************************************************************)
Sentinel == [major |-> 0, minor |-> 0, patch |-> 0, suffix |-> Some(NewSuffix)]

IsVersion(v) ==
  /\ DOMAIN v = {"major", "minor", "patch", "suffix"}
  /\ v.major \in Nat /\ v.minor \in Nat /\ v.patch \in Nat
  /\ v.suffix = Undefined \/ Len(v.suffix) = 1

Parsed == pc \in {"version", "semver", "human"}

\* C14: parseVersion returns a Version for every string, and for a string
\* that does not match the SemVer pattern once trimmed it returns the
\* sentinel {0, 0, 0, "new"}.
C14_ParseNeverFails ==
  Parsed =>
    /\ IsVersion(answers[1])
    /\ ~SEMVER_REGEX_test(trim(operands[1])) => answers[1] = Sentinel

\* "v1.0.0" gives the sentinel
C14_Witness ==
  /\ Parsed
  /\ operands[1] = <<"v", "1", ".", "0", ".", "0">>
  /\ answers[1] = Sentinel

\* s up to its first "+"
WithoutBuild(s) == IF indexOf(s, "+") = -1 THEN s ELSE slice(s, 0, indexOf(s, "+"))

C17_HumanString ==
  pc = "human" =>
    LET v == answers[1]
    IN answers[3] = IF v.major = 0 /\ v.minor = 0 /\ v.patch = 0 /\ Truthy(v.suffix)
                    THEN <<"[">> \o v.suffix[1] \o <<"]">>
                    ELSE answers[2]

\* C19 as stated: every Version parseVersion produces with suffix "new" has
\* major = minor = patch = 0.
C19_Original ==
  (Parsed /\ answers[1].suffix = Some(NewSuffix))
    => (answers[1].major = 0 /\ answers[1].minor = 0 /\ answers[1].patch = 0)

\* C19: a Version parseVersion produces with suffix "new" is the sentinel
\* {0, 0, 0, "new"} when the trimmed string does not match the SemVer
\* pattern; when it matches, the string's pre-release is "new" and major,
\* minor and patch are the numbers the string spells, zero or not.
C19_NewSuffix ==
  (Parsed /\ answers[1].suffix = Some(NewSuffix))
    => LET match == semverMatch(trim(operands[1]))
       IN IF match.ok
          THEN /\ match.pre = Some(NewSuffix)
               /\ numberToString(answers[1].major) = match.nums[1]
               /\ numberToString(answers[1].minor) = match.nums[2]
               /\ numberToString(answers[1].patch) = match.nums[3]
          ELSE answers[1] = Sentinel

\* "12.5.1-new" keeps its numbers
C19_Witness ==
  /\ Parsed
  /\ operands[1] = <<"1", "2", ".", "5", ".", "1", "-", "n", "e", "w">>
  /\ answers[1] = [major |-> 12, minor |-> 5, patch |-> 1, suffix |-> Some(NewSuffix)]

(***************************************************************************)
(* src/lib/version.ts: isFirstBefore on three versions                     *)
(***************************************************************************)
\* a suffix may be absent, the empty string, or a pre-release
OrderSuffixes == {Undefined, Some(<<>>), Some(RcSuffix)}

OrderVersions ==
  {[major |-> a, minor |-> b, patch |-> c, suffix |-> suffix]
     : a \in 0..MaxNum, b \in 0..MaxNum, c \in 0..MaxNum, suffix \in OrderSuffixes}

InitOrder ==
  /\ pc = "versions"
  /\ operands \in OrderVersions \X OrderVersions \X OrderVersions
  /\ answers = <<>>
  /\ rawLog = <<>>
  /\ currVersionStr = <<>>
  /\ lastHash = Undefined
  /\ allCommits = <<>>
  /\ i = 0
  /\ prev = NoVersion
  /\ commits = <<>>
  /\ k = 0
  /\ increment = "patch"
  /\ majors = <<>>
  /\ minors = <<>>
  /\ patches = <<>>
  /\ next = NoVersion
  /\ output = <<>>
  /\ PublishIdle
  /\ EnvIdle

\* lines 31-41 and src/.scripts/lib/version.ts lines 28-38, on every pair
IsFirstBefore ==
  /\ pc = "versions"
  /\ answers' = <<[pair \in (1..3) \X (1..3) |->
                     isFirstBefore(operands[pair[1]], operands[pair[2]])],
                  [pair \in (1..3) \X (1..3) |->
                     firstIsBefore(operands[pair[1]], operands[pair[2]])]>>
  /\ pc' = "compared"
  /\ UNCHANGED <<modelVars, operands, publishVars, envVars, thrown>>

NextOrder == IsFirstBefore

SpecOrder == InitOrder /\ [][NextOrder]_vars

Irreflexive(before) == \A x \in 1..3 : ~before[<<x, x>>]
Transitive(before) ==
  \A x, y, z \in 1..3 : (before[<<x, y>>] /\ before[<<y, z>>]) => before[<<x, z>>]

\* C16: isFirstBefore is a strict order on versions, suffixes included: no
\* version is before itself, and a before b and b before c give a before c.
C16_StrictOrder ==
  pc = "compared" =>
    /\ Irreflexive(answers[1]) /\ Transitive(answers[1])
    /\ Irreflexive(answers[2]) /\ Transitive(answers[2])

\* 1.0.0-rc before 1.0.0 before 1.0.1
C16_Witness ==
  /\ pc = "compared"
  /\ operands = <<[major |-> 1, minor |-> 0, patch |-> 0, suffix |-> Some(RcSuffix)],
                  Version(1, 0, 0), Version(1, 0, 1)>>
  /\ answers[1][<<1, 2>>] /\ answers[1][<<2, 3>>] /\ answers[1][<<1, 3>>]
  /\ ~answers[1][<<2, 1>>]

(***************************************************************************)
(* src/lib/index.ts: publish                                               *)
(***************************************************************************)
\* how often the release prompt is shown at most
MaxAsks == 2

\* lines 57-102: the checks before lint, in the order of the code
Preconditions ==
  << "isFile(package.json)",
     "git fetch --all --prune",
     "git --no-optional-locks status --porcelain=2 --branch",
     "# branch.upstream origin/main",
     "no uncommitted files",
     "# branch.ab +0 -0",
     "packageJson.name",
     "packageJson.files",
     "packageJson.license",
     "README.md",
     "packageJson.keywords",
     "packageJson.description",
     "packageJson.engines.node",
     "packageJson.homepage",
     "npm audit" >>

\* the preconditions that execute a command
PreconditionCommands ==
  {"git fetch --all --prune", "git --no-optional-locks status --porcelain=2 --branch", "npm audit"}

\* lines 28-31: the scripts of DEFAULT_CONFIG
ScriptNames == {"lint", "build", "test", "check-build"}

\* line 231
npmRun(scriptName) ==
  CASE scriptName = "lint" -> "npm run lint"
    [] scriptName = "build" -> "npm run build"
    [] scriptName = "test" -> "npm run test"
    [] scriptName = "check-build" -> "npm run check-build"

\* lines 44-53: errorOnMissing of the runify call for each script
errorOnMissing(scriptName) == scriptName \in {"build", "test"}

\* lines 103, 139-141: where publish goes on after each script
afterScript(scriptName) ==
  CASE scriptName = "lint" -> "start"
    [] scriptName = "build" -> "test"
    [] scriptName = "test" -> "check-build"
    [] scriptName = "check-build" -> "final release checks passed"

\* try/catch that goes on as if the step had passed
outcomeSwallowed(ok, onward) == onward

\* lines 55, 210: a throw inside the try block goes to the catch block
outcome(ok, onward) == IF ok THEN onward ELSE "catch"

\* runUnlessDry that runs the command whatever cfg.dryRun is
runUnlessDryIgnoringFlag(dryRun, command, r, l) ==
  [ran |-> Append(r, command), logged |-> l]

\* lines 184-190: ran and logged after runUnlessDry(command)
runUnlessDry(dryRun, command, r, l) ==
  IF dryRun
  THEN [ran |-> r, logged |-> Append(l, <<"dry run (skip): ", command>>)]
  ELSE [ran |-> Append(r, command), logged |-> l]

\* lines 192-196 and 200, in the order of the code
ReleaseSteps ==
  << "git add .",
     "git commit -m 'ci: release v${nextSemver}'",
     "git tag -a v${nextSemver} -m '${nextSemver}'",
     "git push",
     "git push origin v${nextSemver}",
     "isFile(~/.npmrc)",
     "npm publish" >>

\* the step after a release step
afterRelease(step) ==
  IF step = "npm publish" THEN "link"
  ELSE ReleaseSteps[(CHOOSE n \in DOMAIN ReleaseSteps : ReleaseSteps[n] = step) + 1]

\* a prompt that takes every answer but "n" for a yes
afterAnswerUnlessNo(reply) ==
  IF reply = <<"n">> THEN "returned" ELSE "write package.json"

\* lines 125-131: where publish goes on after an answer
afterAnswer(reply) ==
  IF reply = <<"y">> THEN "write package.json"
  ELSE IF reply = <<"n">> THEN "returned"
  ELSE "ask"

\* line 126: the lines the user may type at the prompt
AnswerPool == {<<"y">>, <<" ", "Y">>, <<"n">>, <<"N", " ">>, <<>>, <<"y", "e", "s">>}

DistFilePool == {<<>>, <<"main">>, <<"main", "module", "types">>}

ScriptsPool ==
  {ScriptNames, {"build", "test"}, {"lint", "test", "check-build"}, {"lint", "build"}}

PublishedPool == {versionLine(1, 0, 0, Undefined), versionLine(0, 0, 1, Some(RcSuffix))}

PublishHistories ==
  { <<[hash |-> hashAt(1), refNames |-> <<>>, body |-> FixBody]>>,
    <<[hash |-> hashAt(1), refNames |-> <<>>, body |-> <<"f", "e", "a", "t", ":", " ", "y", "\n">>],
      [hash |-> hashAt(2), refNames |-> <<>>, body |-> FixBody]>> }

InitPublish ==
  /\ pc = "publish"
  /\ cfg \in [dryRun : BOOLEAN]
  /\ packageJson \in [name : {Undefined, Some(PackageName)}, scripts : ScriptsPool,
                      dist : DistFilePool]
  /\ npmrc \in {"file", "directory", "missing"}
  /\ registry \in {"published", "unpublished", "offline"}
  /\ currVersionStr \in (IF registry = "published" THEN PublishedPool ELSE {<<>>})
  /\ rawLog \in PublishHistories
  /\ lastHash = Undefined
  /\ thrown = Undefined
  /\ done = <<>>
  /\ ran = <<>>
  /\ logged = <<>>
  /\ written = <<>>
  /\ asks = 0
  /\ answer = Undefined
  /\ returned = Undefined
  /\ allCommits = <<>>
  /\ i = 0
  /\ prev = NoVersion
  /\ commits = <<>>
  /\ k = 0
  /\ increment = "patch"
  /\ majors = <<>>
  /\ minors = <<>>
  /\ patches = <<>>
  /\ next = NoVersion
  /\ output = <<>>
  /\ VersionIdle

inputVars == <<cfg, packageJson, npmrc, registry, versionVars>>

\* lines 35-42
PublishEntry ==
  /\ pc = "publish"
  /\ logged' = IF cfg.dryRun THEN Append(logged, <<"--dry-run:">>) ELSE logged
  /\ pc' = "preconditions"
  /\ UNCHANGED <<modelVars, inputVars, thrown, done, ran, written, asks, answer, returned>>

\* lines 57-102, one check
Precondition ==
  /\ pc = "preconditions"
  /\ LET check == Preconditions[Len(done) + 1]
     IN /\ ran' = IF check \in PreconditionCommands THEN Append(ran, check) ELSE ran
        /\ \E passes \in BOOLEAN :
             LET ok == IF check = "packageJson.name" THEN packageJson.name # Undefined
                       ELSE passes
                 onward == IF Len(done) + 1 = Len(Preconditions) THEN "lint"
                           ELSE "preconditions"
             IN /\ pc' = outcome(ok, onward)
                /\ done' = IF ok THEN Append(done, check) ELSE done
                /\ thrown' = IF ok THEN thrown ELSE Some(check)
  /\ UNCHANGED <<modelVars, inputVars, logged, written, asks, answer, returned>>

\* lines 103, 139-141 and runify, lines 222-235
RunScript ==
  /\ pc \in ScriptNames
  /\ \E exitsZero \in BOOLEAN :
       LET exists == pc \in packageJson.scripts
           ok == IF exists THEN exitsZero ELSE ~errorOnMissing(pc)
       IN /\ ran' = IF exists THEN Append(ran, npmRun(pc)) ELSE ran
          /\ pc' = outcome(ok, afterScript(pc))
          /\ done' = IF ok THEN Append(done, pc) ELSE done
          /\ thrown' = IF ok THEN thrown ELSE Some(npmRun(pc))
  /\ UNCHANGED <<modelVars, inputVars, logged, written, asks, answer, returned>>

\* lines 107-123
LogChecklist ==
  /\ pc = "released"
  /\ logged' = Append(logged, <<"Final checklist:">>)
  /\ pc' = "ask"
  /\ UNCHANGED <<modelVars, inputVars, thrown, done, ran, written, asks, answer, returned>>

\* lines 124-132, one turn of the loop
Ask ==
  /\ pc = "ask"
  /\ asks < MaxAsks
  /\ asks' = asks + 1
  /\ \E line \in AnswerPool :
       /\ answer' = Some(toLowerCase(trim(line)))
       /\ pc' = afterAnswer(answer'[1])
       /\ done' = IF pc' = "write package.json" THEN Append(done, "release? y") ELSE done
       /\ returned' = IF pc' = "returned" THEN Some(FALSE) ELSE returned
       /\ pc' = "ask" => asks' < MaxAsks
  /\ UNCHANGED <<modelVars, inputVars, thrown, ran, logged, written>>

\* line 135
WritePackageJson ==
  /\ pc = "write package.json"
  /\ \E ok \in BOOLEAN :
       /\ written' = IF ok THEN Append(written, "package.json") ELSE written
       /\ thrown' = IF ok THEN thrown ELSE Some("write package.json")
       /\ pc' = outcome(ok, "reinstall")
  /\ UNCHANGED <<modelVars, inputVars, done, ran, logged, asks, answer, returned>>

\* lines 137-138
Reinstall ==
  /\ pc = "reinstall"
  /\ \E removed \in BOOLEAN, installed \in BOOLEAN :
       LET ok == removed /\ installed
       IN /\ written' = IF removed THEN Append(written, "node_modules") ELSE written
          /\ ran' = IF removed
                    THEN Append(ran, "npm install --engine-strict --ignore-scripts")
                    ELSE ran
          /\ done' = IF ok THEN Append(done, "reinstall") ELSE done
          /\ thrown' = IF ok THEN thrown ELSE Some("reinstall")
          /\ pc' = outcome(ok, "build")
  /\ UNCHANGED <<modelVars, inputVars, logged, asks, answer, returned>>

\* line 143
LogFinalChecks ==
  /\ pc = "final release checks passed"
  /\ logged' = Append(logged, <<"final release checks passed... releasing...">>)
  /\ pc' = "dist files"
  /\ UNCHANGED <<modelVars, inputVars, thrown, done, ran, written, asks, answer, returned>>

\* lines 153-182: the licence comment is written to the first `reads` files;
\* reading a later one throws
WriteDistFiles ==
  /\ pc = "dist files"
  /\ \E reads \in 0..Len(packageJson.dist) :
       LET ok == reads = Len(packageJson.dist)
       IN /\ written' = written \o SubSeq(packageJson.dist, 1, reads)
          /\ thrown' = IF ok THEN thrown ELSE Some("read dist file")
          /\ pc' = outcome(ok, ReleaseSteps[1])
  /\ UNCHANGED <<modelVars, inputVars, done, ran, logged, asks, answer, returned>>

\* lines 192-196 and 200, one command
Release ==
  /\ pc \in Range(ReleaseSteps) \ {"isFile(~/.npmrc)"}
  /\ LET after == runUnlessDry(cfg.dryRun, pc, ran, logged)
     IN /\ ran' = after.ran
        /\ logged' = after.logged
        /\ \E exitsZero \in BOOLEAN :
             LET ok == cfg.dryRun \/ exitsZero
             IN /\ thrown' = IF ok THEN thrown ELSE Some(pc)
                /\ pc' = outcome(ok, afterRelease(pc))
  /\ UNCHANGED <<modelVars, inputVars, done, written, asks, answer, returned>>

\* lines 197-199: lstatSync throws when there is no ~/.npmrc
NpmLogin ==
  /\ pc = "isFile(~/.npmrc)"
  /\ LET after == IF npmrc = "directory"
                  THEN runUnlessDry(cfg.dryRun, "npm login", ran, logged)
                  ELSE [ran |-> ran, logged |-> logged]
     IN /\ ran' = after.ran
        /\ logged' = after.logged
        /\ \E exitsZero \in BOOLEAN :
             LET ok == /\ npmrc # "missing"
                       /\ (npmrc = "directory" /\ ~cfg.dryRun) => exitsZero
             IN /\ thrown' = IF ok THEN thrown ELSE Some("isFile(~/.npmrc)")
                /\ pc' = outcome(ok, afterRelease(pc))
  /\ UNCHANGED <<modelVars, inputVars, done, written, asks, answer, returned>>

\* lines 202-209 and 218
LogLinkAndReturn ==
  /\ pc = "link"
  /\ \E onGitHub \in BOOLEAN :
       logged' = IF onGitHub
                 THEN logged \o <<<<"Prefilled GitHub release link:">>,
                                  <<"${homepage}/releases/new">>>>
                 ELSE logged
  /\ returned' = Some(TRUE)
  /\ pc' = "returned"
  /\ UNCHANGED <<modelVars, inputVars, thrown, done, ran, written, asks, answer>>

\* lines 210-216; an Error thrown by generateRelease arrives here as well
Catch ==
  /\ pc \in {"catch", "threw"}
  /\ logged' = Append(logged, <<"error.stack">>)
  /\ returned' = Some(FALSE)
  /\ pc' = "returned"
  /\ UNCHANGED <<modelVars, inputVars, thrown, done, ran, written, asks, answer>>

NextPublish ==
  \/ PublishEntry
  \/ Precondition
  \/ RunScript
  \/ GetPublishedVersion
  \/ GetCommitsSinceLastRelease
  \/ BucketCommit
  \/ ComputeNext
  \/ LogChecklist
  \/ Ask
  \/ WritePackageJson
  \/ Reinstall
  \/ LogFinalChecks
  \/ WriteDistFiles
  \/ Release
  \/ NpmLogin
  \/ LogLinkAndReturn
  \/ Catch

SpecPublish == InitPublish /\ [][NextPublish]_vars

(***************************************************************************)
(* Properties of publish                                                   *)
(***************************************************************************)
\* the commands of the release
ReleaseCommands == Range(ReleaseSteps) \ {"isFile(~/.npmrc)"}

\* every check before the release, in the order of the code
RequiredSteps ==
  Preconditions \o <<"lint", "release? y", "reinstall", "build", "test", "check-build">>

Executed(commands) == \E n \in DOMAIN ran : ran[n] \in commands

\* C11: a release command (git add, commit, tag, push, npm publish) is
\* executed only after every precondition check, npm audit, lint, the user's
\* confirmation, the reinstall, build, test and check-build have completed,
\* in that order; when a check fails or a script throws, publish returns
\* false and no release command is executed.
C11_ReleaseAfterChecks ==
  /\ Executed(ReleaseCommands) => done = RequiredSteps
  /\ (thrown # Undefined /\ done # RequiredSteps) => ~Executed(ReleaseCommands)
  /\ thrown # Undefined => pc \in {"threw", "catch", "returned"}
  /\ (thrown # Undefined /\ pc = "returned") => returned = Some(FALSE)

\* a release that went through: every check done, npm publish run last
C11_Witness ==
  /\ returned = Some(TRUE)
  /\ ~cfg.dryRun
  /\ done = RequiredSteps
  /\ ran[Len(ran)] = "npm publish"

\* the commands a dry run must not execute
DryRunCommands == ReleaseCommands \cup {"npm login"}

IsSkipMessage(message) == message[1] = "dry run (skip): "

\* the commands publish reaches after the final checks, npm login included
\* when ~/.npmrc is not a file
CommandsReached ==
  SelectSeq(ReleaseSteps, LAMBDA step : step # "isFile(~/.npmrc)" /\ step # "npm publish")
    \o (IF npmrc = "directory" THEN <<"npm login">> ELSE <<>>) \o <<"npm publish">>

FinalChecksPassed == done = RequiredSteps

\* C13: with dryRun true, once the final checks have passed publish does
\* nothing but log: no file is written or removed and no command is run
\* from then on.
C13_DryRunStopsAfterChecks ==
  [][(cfg.dryRun /\ FinalChecksPassed) => (written' = written /\ ran' = ran)]_vars

\* the user has answered "y"
Confirmed == \E n \in DOMAIN done : done[n] = "release? y"

\* C23: publish writes package.json, removes node_modules and rewrites the
\* dist files only after the user has answered "y" to the release prompt;
\* after "n" it returns false with no file modified; any other answer, the
\* empty one included, leaves publish at the prompt.
C23_WritesOnlyAfterYes ==
  /\ written # <<>> => Confirmed
  /\ Confirmed => (asks >= 1 /\ pc # "ask")
  /\ answer = Some(<<"n">>) =>
       (pc = "returned" /\ returned = Some(FALSE) /\ written = <<>> /\ ~Confirmed)
  /\ (answer # Undefined /\ answer # Some(<<"y">>) /\ answer # Some(<<"n">>)) =>
       (pc = "ask" /\ written = <<>> /\ ~Confirmed /\ returned = Undefined)

\* an empty answer, the prompt again, then "n": false and nothing written
C23_Witness ==
  /\ asks = 2
  /\ answer = Some(<<"n">>)
  /\ returned = Some(FALSE)
  /\ written = <<>>
  /\ done = Preconditions \o <<"lint">>

====
